---- MODULE Spec2Model ----
(***************************************************************************)
(* Model of the expert MCP server: ExpertService (documentation store,     *)
(* Claude calls raced against a timeout, the lazily computed service       *)
(* description) and the two protocol handlers of createServer (list-tools  *)
(* and call-tool).  The JavaScript runtime is single-threaded: every       *)
(* action below is one run-to-completion segment of a handler, from one    *)
(* suspension point (await) to the next.                                   *)
(***************************************************************************)
EXTENDS Naturals, Sequences, FiniteSets, TLC

VARIABLES
  documentation,      \* Map<string,string>, in insertion order: <<[name, content], ...>>
  systemPrompt,       \* this.systemPrompt
  toolMetadata,       \* this.toolMetadata
  queryMetadata,      \* this.queryMetadata
  serviceDescription, \* this.serviceDescription ('' = not computed)
  req,                \* the in-flight protocol requests / reloads, one record per slot
  last,               \* the request the latest step completed, with what it returned
  cycle               \* history: what the last load read from the disk

vars == <<documentation, systemPrompt, toolMetadata, queryMetadata,
          serviceDescription, req, last, cycle>>

\* Number of requests that may be in flight at the same time.
MaxReq == 2

Slots == 1..MaxReq

(***************************************************************************)
(* Strings                                                                 *)
(***************************************************************************)
\* String.prototype.startsWith
StartsWith(s, p) == Len(s) >= Len(p) /\ SubSeq(s, 1, Len(p)) = p

\* String.prototype.endsWith
EndsWith(s, p) == Len(s) >= Len(p) /\ SubSeq(s, Len(s) - Len(p) + 1, Len(s)) = p

LowerOf(c) ==
  CASE c = "A" -> "a" [] c = "B" -> "b" [] c = "C" -> "c" [] c = "D" -> "d"
    [] c = "E" -> "e" [] c = "F" -> "f" [] c = "G" -> "g" [] c = "H" -> "h"
    [] c = "I" -> "i" [] c = "J" -> "j" [] c = "K" -> "k" [] c = "L" -> "l"
    [] c = "M" -> "m" [] c = "N" -> "n" [] c = "O" -> "o" [] c = "P" -> "p"
    [] c = "Q" -> "q" [] c = "R" -> "r" [] c = "S" -> "s" [] c = "T" -> "t"
    [] c = "U" -> "u" [] c = "V" -> "v" [] c = "W" -> "w" [] c = "X" -> "x"
    [] c = "Y" -> "y" [] c = "Z" -> "z" [] OTHER -> c

\* Faulty variant of toLowerCase: the case is kept.
toLowerCaseKeepsCase(s) == s

RECURSIVE toLowerCase(_)
\* String.prototype.toLowerCase
toLowerCase(s) ==
  IF Len(s) = 0 THEN "" ELSE LowerOf(SubSeq(s, 1, 1)) \o toLowerCase(Tail(s))

RECURSIVE JoinStrings(_, _)
\* Array.prototype.join
JoinStrings(xs, sep) ==
  IF Len(xs) = 0 THEN ""
  ELSE IF Len(xs) = 1 THEN xs[1]
  ELSE xs[1] \o sep \o JoinStrings(Tail(xs), sep)

(***************************************************************************)
(* The disk: the docs directory and the three prompt files                 *)
(***************************************************************************)
File(n, c, ok) == [name |-> n, content |-> c, readable |-> ok]
PromptFile(c) == [exists |-> TRUE, content |-> c]
NoFile == [exists |-> FALSE, content |-> ""]

\* The disk states a load may find.
Disks ==
  { [dirOk |-> TRUE,
     files |-> << File(".hidden.md", "Hidden", TRUE), File("a.txt", "Alpha doc", TRUE),
                  File("b.md", "Beta doc", TRUE), File("c.png", "PNG", TRUE),
                  File("d.json", "{}", FALSE) >>,
     system |-> PromptFile("You are A"), tool |-> PromptFile("Tool A"),
     query |-> PromptFile("Query A")],
    [dirOk |-> TRUE,
     files |-> << File("e.json", "Gamma doc", TRUE) >>,
     system |-> PromptFile("You are B"), tool |-> NoFile, query |-> NoFile],
    [dirOk |-> FALSE, files |-> << File("f.md", "Delta doc", TRUE) >>,
     system |-> NoFile, tool |-> PromptFile("Tool C"), query |-> PromptFile("")] }

\* Faulty variant of ValidDocFile: hidden files are not filtered out.
ValidDocFileAllowsHidden(file) ==
  EndsWith(file, ".txt") \/ EndsWith(file, ".md") \/ EndsWith(file, ".json")

\* the filter of loadDocumentation
ValidDocFile(file) ==
  /\ ~StartsWith(file, ".")
  /\ (EndsWith(file, ".txt") \/ EndsWith(file, ".md") \/ EndsWith(file, ".json"))

RECURSIVE ReadFiles(_)
\* the for loop of loadDocumentation over the directory listing
ReadFiles(files) ==
  IF Len(files) = 0 THEN << >>
  ELSE LET f == Head(files)
           rest == ReadFiles(Tail(files))
       IN IF ValidDocFile(f.name) /\ f.readable
            THEN << [name |-> f.name, content |-> f.content] >> \o rest
            ELSE rest

\* loadDocumentation() into a cleared map
loadDocumentation(d) == IF d.dirOk THEN ReadFiles(d.files) ELSE << >>

\* readFileSync of a prompt file, '' when it throws
ReadPrompt(f) == IF f.exists THEN f.content ELSE ""

loadSystemPrompt(d) == ReadPrompt(d.system)
loadToolMetadata(d) == ReadPrompt(d.tool)
loadQueryMetadata(d) == ReadPrompt(d.query)

\* What one load cycle reads: the constructor's four load calls.
LoadStore(d) ==
  [documentation |-> loadDocumentation(d),
   systemPrompt |-> loadSystemPrompt(d),
   toolMetadata |-> loadToolMetadata(d),
   queryMetadata |-> loadQueryMetadata(d)]

\* The store as the service holds it.
Store ==
  [documentation |-> documentation, systemPrompt |-> systemPrompt,
   toolMetadata |-> toolMetadata, queryMetadata |-> queryMetadata]

RECURSIVE Contents(_)
\* Array.from(this.documentation.values())
Contents(docs) ==
  IF Len(docs) = 0 THEN << >> ELSE << Head(docs).content >> \o Contents(Tail(docs))

\* Faulty variant of getAllDocumentation: the contents are joined by one
\* newline.
getAllDocumentationOneNewline(docs) ==
  IF Len(docs) = 0 THEN "" ELSE JoinStrings(Contents(docs), "\n")

\* getAllDocumentation() of a store
getAllDocumentation(docs) ==
  IF Len(docs) = 0 THEN "" ELSE JoinStrings(Contents(docs), "\n\n")

(***************************************************************************)
(* ContextAssembler: the three prompt templates                            *)
(***************************************************************************)
\* the params object generateQuery hands to callClaude
QueryParams(st, request) ==
  [system |-> st.systemPrompt,
   content |-> "Given this API documentation:\n          \n"
      \o getAllDocumentation(st.documentation) \o "\n\n"
      \o (IF st.queryMetadata # ""
            THEN "Additional Query Context:\n" \o st.queryMetadata \o "\n\n" ELSE "")
      \o "\n\nGenerate a query for this request: \"" \o request \o "\""
      \o "\n\nPlease return ONLY the query, with no additional explanation or context."]

\* the params object getDocumentationResponse hands to callClaude
DocumentationParams(st, request) ==
  [system |-> st.systemPrompt,
   content |-> "Given this API documentation:\n          \n"
      \o getAllDocumentation(st.documentation) \o "\n\n"
      \o (IF st.queryMetadata # ""
            THEN "Additional Context:\n" \o st.queryMetadata \o "\n\n" ELSE "")
      \o "\n\nAnswer this question about the documentation: \"" \o request \o "\""
      \o "\n\nPlease provide a clear, concise response based solely on the provided documentation and context."]

\* the params object analyzeDocumentation hands to callClaude
AnalysisParams(st) ==
  [system |-> st.systemPrompt,
   content |-> "Analyze this API documentation and provide a concise 1-2 sentence description of what this API/service is about and what it does.\n\nDocumentation:\n"
      \o getAllDocumentation(st.documentation) \o "\n\n"
      \o (IF st.toolMetadata # "" THEN "Additional Context:\n" \o st.toolMetadata ELSE "")
      \o "\n\nYour response should be direct and focused on the core functionality, suitable for use in an API tool description."]

NoParams == [system |-> "", content |-> ""]

(***************************************************************************)
(* The backend's replies and their validation                              *)
(***************************************************************************)
Block(t, x) == [type |-> t, text |-> x]
Response(c) == [defined |-> TRUE, content |-> c]
\* messages.create resolved with no value
NullResponse == [defined |-> FALSE, content |-> << >>]

\* Texts a well-formed reply may carry in its first block.
Texts == {"Alpha API", "Error: x"}

\* Replies with a first block of type text and a non-empty text.
ValidResponses == {Response(<< Block("text", t), Block("text", "more") >>) : t \in Texts}

\* Replies that fail validation: no content block, a first block that is not
\* text, a text block without text.
MalformedResponses ==
  {Response(<< >>), Response(<< Block("image", "") >>), Response(<< Block("text", "") >>)}

Responses == ValidResponses \cup MalformedResponses

IsValid(response) ==
  /\ response.defined
  /\ Len(response.content) > 0
  /\ response.content[1].type = "text"
  /\ response.content[1].text # ""

\* Faulty variant of validateClaudeResponse: a text that begins with
\* "Error:" is taken for a failure.
validateClaudeResponseRejectsError(response, context) ==
  IF ~response.defined \/ Len(response.content) = 0
    THEN "Error: Unable to process " \o context
  ELSE IF response.content[1].type # "text" \/ response.content[1].text = ""
            \/ StartsWith(response.content[1].text, "Error:")
    THEN "Error: Unable to process " \o context
  ELSE response.content[1].text

validateClaudeResponse(response, context) ==
  IF ~response.defined \/ Len(response.content) = 0
    THEN "Error: Unable to process " \o context
  ELSE IF response.content[1].type # "text" \/ response.content[1].text = ""
    THEN "Error: Unable to process " \o context
  ELSE response.content[1].text

\* How a callClaude settles: the backend's reply wins the race, the backend
\* call rejects, or the timer rejects first.
Replied(response) == [kind |-> "reply", response |-> response]
BackendFailed == [kind |-> "error", response |-> NullResponse]
TimedOut == [kind |-> "timeout", response |-> NullResponse]
NoOutcome == [kind |-> "none", response |-> NullResponse]

\* Faulty variant of generateQuery: the catch message leaves the request out.
generateQueryNoRequest(request, outcome) ==
  IF outcome.kind = "reply"
    THEN validateClaudeResponse(outcome.response, "query request: \"" \o request \o "\"")
    ELSE "Error: Unable to generate query for request"

\* generateQuery from the point where callClaude has settled
generateQuery(request, outcome) ==
  IF outcome.kind = "reply"
    THEN validateClaudeResponse(outcome.response, "query request: \"" \o request \o "\"")
    ELSE "Error: Unable to generate query for request: \"" \o request \o "\""

\* getDocumentationResponse from the point where callClaude has settled
getDocumentationResponse(request, outcome) ==
  IF outcome.kind = "reply"
    THEN validateClaudeResponse(outcome.response,
                                "documentation request: \"" \o request \o "\"")
    ELSE "Error: Unable to process documentation request: \"" \o request \o "\""

(***************************************************************************)
(* call-tool arguments and their validation                                *)
(***************************************************************************)
\* request.params.arguments: no object at all ("none"), or an object whose
\* field request is missing ("undefined"), a number or a string.
Args(t, v) == [type |-> t, val |-> v]

\* Request strings a caller may send.
Requests == {"", "List \"users\""}

ArgValues ==
  {Args("none", ""), Args("undefined", ""), Args("number", "")}
    \cup {Args("string", v) : v \in Requests}

ToolNames == {"create-query", "documentation", "delete-all"}

Issue(p, m) == [path |-> p, message |-> m]

\* Faulty variant of QueryArgumentsSchema: z.string() without min(1).
QueryArgumentsSchemaNoMin(args) ==
  IF args.type = "none" THEN << Issue("", "Required") >>
  ELSE IF args.type = "undefined" THEN << Issue("request", "Required") >>
  ELSE IF args.type # "string"
    THEN << Issue("request", "Expected string, received " \o args.type) >>
  ELSE << >>

\* z.object({ request: z.string().min(1, 'Request cannot be empty') }).parse(args):
\* the issues of the ZodError it throws, none when it returns
QueryArgumentsSchema(args) ==
  IF args.type = "none" THEN << Issue("", "Required") >>
  ELSE IF args.type = "undefined" THEN << Issue("request", "Required") >>
  ELSE IF args.type # "string"
    THEN << Issue("request", "Expected string, received " \o args.type) >>
  ELSE IF Len(args.val) < 1 THEN << Issue("request", "Request cannot be empty") >>
  ELSE << >>

DocumentationArgumentsSchema(args) ==
  IF args.type = "none" THEN << Issue("", "Required") >>
  ELSE IF args.type = "undefined" THEN << Issue("request", "Required") >>
  ELSE IF args.type # "string"
    THEN << Issue("request", "Expected string, received " \o args.type) >>
  ELSE IF Len(args.val) < 1 THEN << Issue("request", "Request cannot be empty") >>
  ELSE << >>

RECURSIVE IssueTexts(_)
\* error.errors.map((e) => `${e.path.join(".")}: ${e.message}`)
IssueTexts(issues) ==
  IF Len(issues) = 0 THEN << >>
  ELSE << Head(issues).path \o ": " \o Head(issues).message >> \o IssueTexts(Tail(issues))

(***************************************************************************)
(* What a handler hands back to the protocol layer                         *)
(***************************************************************************)
NoResult == [type |-> "none", content |-> << >>, message |-> "", tools |-> << >>]
\* { content: [ { type: "text", text } ] }
ContentResult(text) ==
  [type |-> "content", content |-> << Block("text", text) >>, message |-> "", tools |-> << >>]
\* the handler threw new Error(message)
ErrorResult(message) ==
  [type |-> "error", content |-> << >>, message |-> message, tools |-> << >>]
\* { tools: [...] }
ToolsResult(tools) ==
  [type |-> "tools", content |-> << >>, message |-> "", tools |-> tools]
\* reloadDocumentation resolved
VoidResult == [type |-> "void", content |-> << >>, message |-> "", tools |-> << >>]

\* the catch block of the call-tool handler for a ZodError
InvalidArguments(issues) ==
  ErrorResult("Invalid arguments: " \o JoinStrings(IssueTexts(issues), ", "))

\* Faulty variant of UnknownTool: the final else throws nothing.
UnknownToolIgnored(name) == NoResult

\* the final else of the call-tool handler
UnknownTool(name) == ErrorResult("Unknown tool: " \o name)

\* the inputSchema both descriptors advertise
InputSchema ==
  [type |-> "object", properties |-> [request |-> [type |-> "string"]],
   required |-> << "request" >>]

\* Faulty variant of ToolDescriptors: the documentation descriptor is left out.
ToolDescriptorsOne(baseDescription) ==
  << [name |-> "create-query",
      description |-> "Generate a query" \o
         (IF baseDescription # "" THEN " for " \o toLowerCase(baseDescription)
                                  ELSE " using the API documentation"),
      inputSchema |-> InputSchema] >>

\* the tools array the list-tools handler builds from getServiceDescription()
ToolDescriptors(baseDescription) ==
  LET toolDescription ==
        IF baseDescription # "" THEN " for " \o toLowerCase(baseDescription)
                                ELSE " using the API documentation"
  IN << [name |-> "create-query",
         description |-> "Generate a query" \o toolDescription,
         inputSchema |-> InputSchema],
        [name |-> "documentation",
         description |-> "Get information about" \o toolDescription,
         inputSchema |-> InputSchema] >>

(***************************************************************************)
(* Requests in flight                                                      *)
(*                                                                         *)
(* A handler is suspended only in callClaude, awaiting the race between    *)
(* messages.create and the timer.  The other awaits (of generateQuery,     *)
(* getDocumentationResponse and analyzeDocumentation, by their callers)    *)
(* wait for a promise that settles without further I/O: their continuation *)
(* runs in the microtasks that follow, before the event loop dispatches    *)
(* another timer or socket callback, and nothing that runs in between      *)
(* writes the state it reads.  So a handler runs in at most two steps: up  *)
(* to the race, and from the settled race to its return.                   *)
(***************************************************************************)
EmptyStore ==
  [documentation |-> << >>, systemPrompt |-> "", toolMetadata |-> "", queryMetadata |-> ""]

\* op:      "none", "list" (list-tools), "call" (call-tool), "reload"
\* pc:      "idle", or "upstream": suspended in callClaude's await of the race
\* params:  what was sent to messages.create;  snap: the load cycle then current
\* absent:  list-tools found no service description when it started
\* api:     "pending" while the backend has not settled the HTTP call
\* timer:   "armed" while the setTimeout of callClaude has not fired
\* sent:    the number of messages.create calls the request has made
IdleSlot ==
  [op |-> "none", pc |-> "idle", name |-> "", args |-> Args("undefined", ""),
   params |-> NoParams, snap |-> EmptyStore, absent |-> FALSE,
   sent |-> 0, api |-> "none", timer |-> "none"]

\* snap:    the load cycle current when the request started
\* before:  this.serviceDescription before the request's last step
\* issued:  the number of backend requests the request made
\* outcome: how its callClaude settled;  ret: what analyzeDocumentation returned
NoLast ==
  [op |-> "none", name |-> "", args |-> Args("undefined", ""), absent |-> FALSE,
   snap |-> EmptyStore, before |-> "", issued |-> 0, outcome |-> NoOutcome,
   ret |-> "", result |-> NoResult]

\* A slot no request, backend call or timer occupies.
Free(r) == req[r].pc = "idle" /\ req[r].api = "none" /\ req[r].timer = "none"

\* A new request takes the first free slot.
Fresh(r) == Free(r) /\ \A q \in Slots : q < r => ~Free(q)

\* Faulty variant of callClaude: the request is sent a second time.
callClaudeTwice(slot, params) ==
  [slot EXCEPT !.pc = "upstream", !.params = params, !.api = "pending",
               !.timer = "armed", !.sent = slot.sent + 2]

\* Faulty variant of callClaude: no timer is armed.
callClaudeNoTimer(slot, params) ==
  [slot EXCEPT !.pc = "upstream", !.params = params, !.api = "pending",
               !.sent = slot.sent + 1]

\* callClaude up to its await: arms the timer and sends the request
callClaude(slot, params) ==
  [slot EXCEPT !.pc = "upstream", !.params = params, !.api = "pending",
               !.timer = "armed", !.sent = slot.sent + 1]

\* What callClaude leaves behind when the race settles with outcome o: the
\* timer when the backend settled first, the HTTP call when the timer did.
Settled(o) ==
  [IdleSlot EXCEPT !.api = IF o.kind = "timeout" THEN "pending" ELSE "none",
                   !.timer = IF o.kind = "timeout" THEN "none" ELSE "armed"]

(***************************************************************************)
(* ExpertService.analyzeDocumentation                                      *)
(***************************************************************************)
\* analyzeDocumentation after callClaude has settled: the new value of
\* this.serviceDescription and the value returned
analyzeDocumentation(description, o) ==
  IF o.kind = "reply"
    THEN LET d == validateClaudeResponse(o.response, "documentation analysis")
             stored == IF ~StartsWith(d, "Error:") THEN d ELSE description
         IN [serviceDescription |-> stored, ret |-> stored]
    ELSE [serviceDescription |-> description, ret |-> ""]

\* Faulty variant of NoDocumentation: the analysis is never skipped.
NoDocumentationNever(st) == FALSE

\* analyzeDocumentation returns '' at once, without calling Claude
NoDocumentation(st) == getAllDocumentation(st.documentation) = ""

(***************************************************************************)
(* list-tools                                                              *)
(***************************************************************************)
getServiceDescription == serviceDescription

\* The handler from `const baseDescription` to its return.
ListToolsReturn(baseDescription) == ToolsResult(ToolDescriptors(baseDescription))

\* The handler up to the race, or to its return when it does not call Claude.
ListTools(r) ==
  /\ Fresh(r)
  /\ IF getServiceDescription # "" \/ NoDocumentation(Store)
       THEN /\ last' = [NoLast EXCEPT !.op = "list",
                          !.absent = (getServiceDescription = ""),
                          !.snap = cycle, !.before = serviceDescription,
                          !.result = ListToolsReturn(getServiceDescription)]
            /\ UNCHANGED req
       ELSE /\ req' = [req EXCEPT ![r] =
                 callClaude([IdleSlot EXCEPT !.op = "list", !.absent = TRUE,
                                             !.snap = cycle],
                            AnalysisParams(Store))]
            /\ last' = NoLast
  /\ UNCHANGED <<documentation, systemPrompt, toolMetadata, queryMetadata,
                 serviceDescription, cycle>>

(***************************************************************************)
(* call-tool                                                               *)
(***************************************************************************)
\* The issues the schema of tool `name` finds in args.
ParseArguments(name, args) ==
  IF name = "create-query" THEN QueryArgumentsSchema(args)
                           ELSE DocumentationArgumentsSchema(args)

\* The params of the backend call of tool `name`.
CallParams(name, st, request) ==
  IF name = "create-query" THEN QueryParams(st, request)
                           ELSE DocumentationParams(st, request)

\* Faulty variant of CallToolRejects: the arguments are parsed before the
\* handler routes by name.
CallToolRejectsValidatesFirst(name, args) ==
  IF ParseArguments(name, args) # << >>
    THEN InvalidArguments(ParseArguments(name, args))
  ELSE IF name = "create-query" \/ name = "documentation" THEN NoResult
  ELSE UnknownTool(name)

\* Faulty variant of CallToolRejects: the handler throws nothing.
CallToolRejectsNothing(name, args) == NoResult

\* What the handler throws before any await: nothing when the tool is known
\* and its arguments parse.
CallToolRejects(name, args) ==
  IF name = "create-query" \/ name = "documentation"
    THEN IF ParseArguments(name, args) # << >>
           THEN InvalidArguments(ParseArguments(name, args))
           ELSE NoResult
    ELSE UnknownTool(name)

\* Faulty variant of CallToolSettled: a failed backend call is rethrown.
CallToolSettledRethrows(name, request, o) ==
  IF o.kind # "reply" THEN ErrorResult("Request timed out after 30000ms")
  ELSE IF name = "create-query" THEN ContentResult(generateQuery(request, o))
  ELSE ContentResult(getDocumentationResponse(request, o))

\* What the handler returns once callClaude has settled with outcome o.
CallToolSettled(name, request, o) ==
  IF name = "create-query" THEN ContentResult(generateQuery(request, o))
                           ELSE ContentResult(getDocumentationResponse(request, o))

\* The handler up to the race, or to its throw.
CallTool(r, name, args) ==
  /\ Fresh(r)
  /\ IF CallToolRejects(name, args).type = "error"
       THEN /\ last' = [NoLast EXCEPT !.op = "call", !.name = name, !.args = args,
                          !.snap = cycle,
                          !.result = CallToolRejects(name, args)]
            /\ UNCHANGED req
       ELSE /\ req' = [req EXCEPT ![r] =
                 callClaude([IdleSlot EXCEPT !.op = "call", !.name = name,
                                             !.args = args, !.snap = cycle],
                            CallParams(name, Store, args.val))]
            /\ last' = NoLast
  /\ UNCHANGED <<documentation, systemPrompt, toolMetadata, queryMetadata,
                 serviceDescription, cycle>>

(***************************************************************************)
(* reloadDocumentation                                                     *)
(***************************************************************************)
\* Faulty variant of ReloadedStore: the system prompt is not reloaded.
ReloadedStoreKeepsPrompt(old, d) ==
  [documentation |-> loadDocumentation(d),
   systemPrompt |-> old.systemPrompt,
   toolMetadata |-> loadToolMetadata(d),
   queryMetadata |-> loadQueryMetadata(d)]

\* The store after clear() and the four load calls, which run without
\* suspension (readdirSync, readFileSync).
ReloadedStore(old, d) ==
  [documentation |-> loadDocumentation(d),
   systemPrompt |-> loadSystemPrompt(d),
   toolMetadata |-> loadToolMetadata(d),
   queryMetadata |-> loadQueryMetadata(d)]

\* reloadDocumentation, the disk being in state d, up to the race of its
\* analyzeDocumentation, or to its return when that does not call Claude.
ReloadDocumentation(r, d) ==
  /\ Fresh(r)
  /\ LET st == ReloadedStore(Store, d)
     IN /\ documentation' = st.documentation
        /\ systemPrompt' = st.systemPrompt
        /\ toolMetadata' = st.toolMetadata
        /\ queryMetadata' = st.queryMetadata
        /\ cycle' = LoadStore(d)
        /\ IF NoDocumentation(st)
             THEN /\ last' = [NoLast EXCEPT !.op = "reload",
                                !.snap = LoadStore(d),
                                !.before = serviceDescription,
                                !.result = VoidResult]
                  /\ UNCHANGED req
             ELSE /\ req' = [req EXCEPT ![r] =
                       callClaude([IdleSlot EXCEPT !.op = "reload",
                                                   !.snap = LoadStore(d)],
                                  AnalysisParams(st))]
                  /\ last' = NoLast
  /\ UNCHANGED serviceDescription

(***************************************************************************)
(* The race of callClaude settles                                          *)
(***************************************************************************)
\* The request in slot r from `await Promise.race(...)` to its return.
Settle(r, o) ==
  /\ req[r].pc = "upstream"
  /\ req' = [req EXCEPT ![r] = Settled(o)]
  /\ IF req[r].op = "call"
       THEN /\ last' = [NoLast EXCEPT !.op = "call", !.name = req[r].name,
                          !.args = req[r].args, !.snap = req[r].snap,
                          !.issued = req[r].sent, !.outcome = o,
                          !.result = CallToolSettled(req[r].name, req[r].args.val, o)]
            /\ UNCHANGED serviceDescription
       ELSE LET a == analyzeDocumentation(serviceDescription, o)
            IN /\ serviceDescription' = a.serviceDescription
               /\ last' = [NoLast EXCEPT !.op = req[r].op, !.absent = req[r].absent,
                             !.snap = req[r].snap,
                             !.before = serviceDescription,
                             !.issued = req[r].sent, !.outcome = o, !.ret = a.ret,
                             !.result = IF req[r].op = "list"
                                          THEN ListToolsReturn(a.serviceDescription)
                                          ELSE VoidResult]
  /\ UNCHANGED <<documentation, systemPrompt, toolMetadata, queryMetadata, cycle>>

\* messages.create resolves first.
BackendReplies(r, response) ==
  /\ req[r].api = "pending"
  /\ Settle(r, Replied(response))

\* messages.create rejects first.
BackendFails(r) ==
  /\ req[r].api = "pending"
  /\ Settle(r, BackendFailed)

\* The 30 s timer fires first.
TimerFires(r) ==
  /\ req[r].timer = "armed"
  /\ Settle(r, TimedOut)

\* Faulty variant of LateReply: the late reply is stored as the description.
LateReplyStores(r) ==
  /\ req[r].pc = "idle" /\ req[r].api = "pending"
  /\ req' = [req EXCEPT ![r].api = "none"]
  /\ last' = NoLast
  /\ serviceDescription' = "Alpha API"
  /\ UNCHANGED <<documentation, systemPrompt, toolMetadata, queryMetadata, cycle>>

\* The backend settles the HTTP call after the timer has won: nobody listens.
LateReply(r) ==
  /\ req[r].pc = "idle" /\ req[r].api = "pending"
  /\ req' = [req EXCEPT ![r].api = "none"]
  /\ last' = NoLast
  /\ UNCHANGED <<documentation, systemPrompt, toolMetadata, queryMetadata,
                 serviceDescription, cycle>>

\* The timer fires after the backend has won: its rejection is ignored.
LateTimer(r) ==
  /\ req[r].pc = "idle" /\ req[r].timer = "armed"
  /\ req' = [req EXCEPT ![r].timer = "none"]
  /\ last' = NoLast
  /\ UNCHANGED <<documentation, systemPrompt, toolMetadata, queryMetadata,
                 serviceDescription, cycle>>

(***************************************************************************)
(* The service                                                             *)
(***************************************************************************)
\* new ExpertService(), the disk being in state d
Init ==
  \E d \in Disks :
    /\ documentation = loadDocumentation(d)
    /\ systemPrompt = loadSystemPrompt(d)
    /\ toolMetadata = loadToolMetadata(d)
    /\ queryMetadata = loadQueryMetadata(d)
    /\ cycle = LoadStore(d)
    /\ serviceDescription = ""
    /\ req = [r \in Slots |-> IdleSlot]
    /\ last = NoLast

Next ==
  \/ \E r \in Slots : ListTools(r)
  \/ \E r \in Slots, name \in ToolNames, args \in ArgValues : CallTool(r, name, args)
  \/ \E r \in Slots, d \in Disks : ReloadDocumentation(r, d)
  \/ \E r \in Slots, response \in Responses : BackendReplies(r, response)
  \/ \E r \in Slots : BackendFails(r)
  \/ \E r \in Slots : TimerFires(r)
  \/ \E r \in Slots : LateReply(r)
  \/ \E r \in Slots : LateTimer(r)

Spec == Init /\ [][Next]_vars

\* The runtime runs the callback of a setTimeout that stays armed: the 30 s
\* timer of a callClaude still racing fires unless the backend settles first.
FairSpec == Spec /\ \A r \in Slots : WF_vars(TimerFires(r))

(***************************************************************************)
(* Properties                                                              *)
(***************************************************************************)
KnownTool(name) == name = "create-query" \/ name = "documentation"
WellFormed(args) == args.type = "string" /\ args.val # ""
\* The latest step completed a call-tool / a list-tools request.
CallDone == last.op = "call"
ListDone == last.op = "list"
\* The analysis of the request completed last called Claude and failed.
AnalysisFailed ==
  /\ last.issued = 1
  /\ \/ last.outcome.kind \in {"timeout", "error"}
     \/ last.outcome.kind = "reply" /\ ~IsValid(last.outcome.response)
TwoDescriptors(result) ==
  /\ result.type = "tools"
  /\ Len(result.tools) = 2
  /\ result.tools[1].name = "create-query"
  /\ result.tools[2].name = "documentation"
\* The list-tools requests suspended in the backend call of their analysis.
ListAnalyses == {r \in Slots : req[r].op = "list" /\ req[r].pc = "upstream"}

\* C1: list-tools requests that start while the description is absent and
\* before the first computation has resolved share one backend request: at
\* most one description-analysis request of list-tools callers is in flight.
SingleFlight == Cardinality(ListAnalyses) <= 1

\* The params the request in slot r would send if its documentation, system
\* prompt and metadata all came from load cycle c.
ParamsFrom(r, c) ==
  IF req[r].op = "call" THEN CallParams(req[r].name, c, req[r].args.val)
                        ELSE AnalysisParams(c)

\* C2: the documentation, system prompt and metadata in the params of every
\* backend request are those of one load cycle, the one current when the
\* request was sent, whatever reloads ran before or after.
ReloadAtomicity ==
  \A r \in Slots :
    req[r].pc = "upstream" => req[r].params = ParamsFrom(r, req[r].snap)

\* Two requests are in flight, a call-tool sent before a reload and one
\* sent after it, and the reload changed documentation and system prompt.
ReloadAtomicityWitness ==
  \E r, q \in Slots :
    /\ req[r].pc = "upstream" /\ req[r].op = "call"
    /\ req[q].pc = "upstream" /\ req[q].snap = cycle
    /\ req[r].snap.systemPrompt # cycle.systemPrompt
    /\ req[r].snap.documentation # cycle.documentation
    /\ req[r].snap.documentation # << >>

\* C3: a call-tool of create-query or documentation with a non-empty request
\* string returns exactly one content item, of type text, and no error,
\* however the backend call ended.
CallToolReturnsText ==
  (CallDone /\ KnownTool(last.name) /\ WellFormed(last.args)) =>
    /\ last.result.type = "content"
    /\ Len(last.result.content) = 1
    /\ last.result.content[1].type = "text"

\* A documentation call whose backend call timed out has returned.
CallToolReturnsTextWitness ==
  /\ CallDone /\ last.name = "documentation" /\ WellFormed(last.args)
  /\ last.outcome.kind = "timeout"
  /\ last.result.type = "content"

\* C4: when the timer wins the race, create-query returns a text beginning
\* with 'Error: Unable to generate query for request: "<request>"' and
\* documentation one beginning with 'Error: Unable to process documentation
\* request: "<request>"', <request> being the caller's request.
TimeoutPayload ==
  (CallDone /\ last.outcome.kind = "timeout") =>
    /\ last.result.type = "content"
    /\ last.name = "create-query" =>
         StartsWith(last.result.content[1].text,
           "Error: Unable to generate query for request: \"" \o last.args.val \o "\"")
    /\ last.name = "documentation" =>
         StartsWith(last.result.content[1].text,
           "Error: Unable to process documentation request: \"" \o last.args.val \o "\"")

\* A create-query call whose backend call timed out has returned.
TimeoutPayloadWitness ==
  /\ CallDone /\ last.name = "create-query" /\ last.outcome.kind = "timeout"
  /\ last.args.val # ""

\* C5: a malformed reply yields the text a timeout yields for the same
\* request, for create-query and for documentation.
MalformedSameAsTimeout ==
  (CallDone /\ last.outcome.kind = "reply" /\ ~IsValid(last.outcome.response)) =>
    last.result = CallToolSettled(last.name, last.args.val, TimedOut)

\* C6: a call-tool of create-query or documentation whose arguments lack a
\* string request of length >= 1 fails with an InvalidArguments error that
\* names the violated field with the reason (request, or the arguments
\* themselves when there is no arguments object), and returns no content.
InvalidArgumentsRejected ==
  (CallDone /\ KnownTool(last.name) /\ ~WellFormed(last.args)) =>
    /\ last.result.type = "error"
    /\ last.result.content = << >>
    /\ IF last.args.type = "none"
         THEN last.result.message = "Invalid arguments: : Required"
         ELSE /\ StartsWith(last.result.message, "Invalid arguments: request: ")
              /\ Len(last.result.message) > Len("Invalid arguments: request: ")
    /\ (last.args.type = "string" =>
          last.result.message = "Invalid arguments: request: Request cannot be empty")

\* A create-query call with the empty request string has failed.
InvalidArgumentsRejectedWitness ==
  /\ CallDone /\ last.name = "create-query"
  /\ last.args = Args("string", "")
  /\ last.result.type = "error"

\* C7: a call-tool with a tool name other than create-query and
\* documentation fails with an UnknownTool error and returns no content.
UnknownToolRejected ==
  (CallDone /\ ~KnownTool(last.name)) =>
    /\ last.result.type = "error"
    /\ last.result.content = << >>
    /\ last.result.message = "Unknown tool: " \o last.name

\* A call of an unknown tool with well-formed arguments has failed.
UnknownToolRejectedWitness ==
  /\ CallDone /\ ~KnownTool(last.name) /\ WellFormed(last.args)
  /\ last.result.type = "error"

\* C8: list-tools returns exactly two descriptors, create-query and
\* documentation, whatever the state of the description, the corpus and the
\* backend.
ListToolsTwoDescriptors == ListDone => TwoDescriptors(last.result)

\* A list-tools whose analysis timed out has returned while another
\* request is still in flight.
ListToolsTwoDescriptorsWitness ==
  /\ ListDone /\ last.outcome.kind = "timeout" /\ serviceDescription = ""
  /\ \E r \in Slots : req[r].pc = "upstream"

\* C9: a list-tools that found the description absent and whose analysis got
\* a valid reply (first block a non-empty text) leaves exactly that text in
\* the cache when it returns.
FirstCallComputes ==
  (ListDone /\ last.absent /\ last.outcome.kind = "reply"
     /\ IsValid(last.outcome.response)) =>
    serviceDescription = last.outcome.response.content[1].text

\* C10: when the analysis a list-tools triggered fails (timeout, backend
\* error, malformed reply), analyzeDocumentation returns '', the cache is
\* left absent and the list-tools still returns its two descriptors.
BestEffortDescription ==
  (ListDone /\ last.absent /\ AnalysisFailed) =>
    /\ last.ret = ""
    /\ serviceDescription = ""
    /\ TwoDescriptors(last.result)

\* C11: a reload that replaces the snapshot leaves the description absent
\* until an analysis of the new snapshot succeeds: when reloadDocumentation
\* returns without calling Claude, the new corpus being empty, the
\* description is absent.
ReloadInvalidates ==
  (last.op = "reload" /\ last.issued = 0) => serviceDescription = ""

\* C12: within one load cycle the description is computed at most once: when
\* the analysis of a list-tools settles in the load cycle it started in, no
\* other computation has stored a description in the meantime.
Memoized ==
  (ListDone /\ last.issued = 1 /\ last.snap = cycle) => last.before = ""

\* C13: a call-tool with a known tool and valid arguments makes exactly one
\* backend request, while it is in flight and when it completes, however
\* the request settled.
NoRetry ==
  /\ \A r \in Slots :
       (req[r].op = "call" /\ req[r].pc = "upstream") => req[r].sent = 1
  /\ (CallDone /\ KnownTool(last.name) /\ WellFormed(last.args)) =>
       last.issued = 1

\* A call-tool has completed on a malformed reply.
NoRetryWitness ==
  /\ CallDone /\ KnownTool(last.name) /\ WellFormed(last.args)
  /\ last.outcome.kind = "reply" /\ ~IsValid(last.outcome.response)

\* C14: once callClaude has settled, no timer it armed is still pending.
TimerNotLeaked ==
  \A r \in Slots : req[r].pc = "idle" => req[r].timer = "none"

\* The request completed last started with no documentation loaded.
EmptyCorpus == last.op # "none" /\ last.snap.documentation = << >>

DescriptionSuffix ==
  ListDone =>
    LET suffix == CASE serviceDescription = "" -> " using the API documentation"
                    [] serviceDescription = "Alpha API" -> " for alpha api"
                    [] OTHER -> "?"
    IN /\ TwoDescriptors(last.result)
       /\ last.result.tools[1].description = "Generate a query" \o suffix
       /\ last.result.tools[2].description = "Get information about" \o suffix

\* A list-tools has returned the description its own analysis just stored.
DescriptionSuffixWitness ==
  ListDone /\ last.before = "" /\ serviceDescription = "Alpha API"

\* JSON Schema validation of an arguments object against an inputSchema.
Conforms(schema, args) ==
  /\ schema.type = "object" => args.type # "none"
  /\ \A i \in 1..Len(schema.required) :
       schema.required[i] = "request" => args.type # "undefined"
  /\ args.type \notin {"none", "undefined"} =>
       /\ args.type = schema.properties.request.type
       /\ "minLength" \in DOMAIN schema.properties.request =>
            Len(args.val) >= schema.properties.request.minLength

\* C17: every arguments object that satisfies the inputSchema a descriptor
\* advertises passes the validation of that tool.
AdvertisedContractAccepted ==
  ListDone =>
    \A i \in 1..Len(last.result.tools) : \A args \in ArgValues :
      Conforms(last.result.tools[i].inputSchema, args) =>
        ParseArguments(last.result.tools[i].name, args) = << >>

\* The names of the loaded entries, in discovery order.
LoadedNames == [i \in 1..Len(documentation) |-> documentation[i].name]

\* C18: getAllDocumentation() is the contents of the loaded entries, each
\* once, in discovery order, joined by "\n\n", and "" when none is loaded,
\* after any number of reloads.
AllDocumentationJoined ==
  /\ LoadedNames \in {<< >>, << "a.txt", "b.md" >>, << "e.json" >>}
  /\ LoadedNames = << >> => getAllDocumentation(documentation) = ""
  /\ LoadedNames = << "a.txt", "b.md" >> =>
       getAllDocumentation(documentation) = "Alpha doc\n\nBeta doc"
  /\ LoadedNames = << "e.json" >> =>
       getAllDocumentation(documentation) = "Gamma doc"

\* A reload has loaded two entries and its analysis is in flight.
AllDocumentationJoinedWitness ==
  /\ Len(documentation) = 2
  /\ \E r \in Slots : req[r].op = "reload" /\ req[r].pc = "upstream"

\* C20: a description analysis that started before a reload replaced the
\* snapshot does not store its result after that reload.
NoStaleWrite ==
  (last.op \in {"list", "reload"} /\ last.issued = 1 /\ last.snap # cycle) =>
    serviceDescription = last.before

\* C19: every request suspended in its backend call eventually completes,
\* the backend replying or not; a request the timer completed has finished
\* through its failure handling: a call-tool with an "Error:" text payload,
\* a list-tools with its two descriptors, the description left as it was.
EventuallyCompletes ==
  /\ \A r \in Slots : (req[r].pc = "upstream") ~> (req[r].pc = "idle")
  /\ [](last.outcome.kind = "timeout" =>
          /\ CallDone => /\ last.result.type = "content"
                         /\ StartsWith(last.result.content[1].text, "Error:")
          /\ ListDone => /\ TwoDescriptors(last.result)
                         /\ serviceDescription = last.before)

\* The timer has completed a request and no request is left in flight.
EventuallyCompletesWitness ==
  /\ last.outcome.kind = "timeout"
  /\ \A r \in Slots : req[r].pc = "idle"

\* A step in which the backend settles the HTTP call of a callClaude whose
\* timer has already won the race.
LateReplyStep ==
  \E r \in Slots :
    req[r].pc = "idle" /\ req[r].api = "pending" /\ req'[r].api = "none"

\* C21: a request whose timer won the race has failed: a call-tool has
\* returned its "Error:" text, an analysis has returned '' and left the
\* description as it was; and the backend settling the call afterwards
\* changes neither the description nor the loaded store.
TimeoutIsFinal ==
  /\ [](last.outcome.kind = "timeout" =>
          /\ CallDone =>
               /\ last.result.type = "content"
               /\ StartsWith(last.result.content[1].text, "Error: Unable to ")
          /\ last.op \in {"list", "reload"} =>
               (last.ret = "" /\ serviceDescription = last.before))
  /\ [][LateReplyStep =>
          UNCHANGED <<serviceDescription, documentation, systemPrompt,
                      toolMetadata, queryMetadata>>]_vars

\* A list-tools has returned on the timeout of its analysis and the HTTP
\* call of that analysis is still pending.
TimeoutIsFinalWitness ==
  /\ ListDone /\ last.outcome.kind = "timeout"
  /\ \E r \in Slots : req[r].pc = "idle" /\ req[r].api = "pending"

\* C22: a call-tool whose arguments fail validation fails with
\* InvalidArguments whatever the tool name, an unrecognized one included.
ValidatedBeforeRouting ==
  (CallDone /\ ~WellFormed(last.args)) =>
    /\ last.result.type = "error"
    /\ StartsWith(last.result.message, "Invalid arguments: ")

\* C22, amended: call-tool routes by tool name before it validates: an
\* unrecognized name fails with UnknownTool whether or not the arguments are
\* valid, and arguments that fail validation fail with InvalidArguments only
\* for create-query and documentation.
RoutedBeforeValidation ==
  (CallDone /\ ~WellFormed(last.args)) =>
    /\ last.result.type = "error"
    /\ last.issued = 0
    /\ IF KnownTool(last.name)
         THEN StartsWith(last.result.message, "Invalid arguments: ")
         ELSE last.result.message = "Unknown tool: " \o last.name

\* A call of an unknown tool with an empty request has failed.
RoutedBeforeValidationWitness ==
  /\ CallDone /\ ~KnownTool(last.name)
  /\ last.args = Args("string", "")
  /\ last.result.type = "error"

\* C23: when the backend's reply is valid, create-query and documentation
\* return the text of its first block unchanged as the text of their single
\* content item, a text that begins with "Error:" included.
ValidReplyUnchanged ==
  (CallDone /\ KnownTool(last.name) /\ last.outcome.kind = "reply"
     /\ IsValid(last.outcome.response)) =>
    /\ last.result.type = "content"
    /\ Len(last.result.content) = 1
    /\ last.result.content[1].type = "text"
    /\ last.result.content[1].text = last.outcome.response.content[1].text

\* A create-query has returned a valid reply that begins with "Error:".
ValidReplyUnchangedWitness ==
  /\ CallDone /\ last.name = "create-query" /\ last.outcome.kind = "reply"
  /\ IsValid(last.outcome.response)
  /\ StartsWith(last.outcome.response.content[1].text, "Error:")

\* A file of the documentation location a load keeps: not hidden, of one of
\* the three extensions, and read without failure.
Kept(f) ==
  /\ SubSeq(f.name, 1, 1) # "."
  /\ \E ext \in {".txt", ".md", ".json"} :
       /\ Len(f.name) >= Len(ext)
       /\ SubSeq(f.name, Len(f.name) - Len(ext) + 1, Len(f.name)) = ext
  /\ f.readable

\* The entries a load of disk d is to leave in the store.
KeptEntries(d) ==
  LET kept == IF d.dirOk THEN SelectSeq(d.files, Kept) ELSE << >>
  IN [i \in 1..Len(kept) |-> [name |-> kept[i].name, content |-> kept[i].content]]

\* A prompt fragment after a load: the file's content, '' when it is missing.
Fragment(f) == IF f.exists THEN f.content ELSE ""

CallToolStep ==
  \/ last'.op = "call"
  \/ \E r \in Slots : /\ req[r].pc = "idle" /\ req'[r].pc = "upstream"
                      /\ req'[r].op = "call"

\* C25: a call-tool that fails with InvalidArguments or UnknownTool has made
\* no backend request, and no step of a call-tool changes the documentation,
\* the prompt fragments or the description.
CallToolFrame ==
  /\ []((CallDone /\ (~KnownTool(last.name) \/ ~WellFormed(last.args))) =>
          (last.result.type = "error" /\ last.issued = 0))
  /\ [][(last'.op = "call" /\ last'.result.type = "error") => req' = req]_vars
  /\ [][CallToolStep =>
          UNCHANGED <<documentation, systemPrompt, toolMetadata, queryMetadata,
                      serviceDescription>>]_vars

\* A call-tool has been rejected while the description is present and
\* another request is in flight.
CallToolFrameWitness ==
  /\ CallDone /\ last.result.type = "error" /\ serviceDescription # ""
  /\ \E r \in Slots : req[r].pc = "upstream"

====
